---- MODULE Spec2Model ----
(***************************************************************************)
(* Directory walker of find_duplicate_files: Arguments (src/args.rs) and   *)
(* get_all_files / analyze_dir_entry_results (src/with_jwalk.rs).          *)
(*                                                                         *)
(* A path is the sequence of the names below the root, a name is the       *)
(* sequence of its characters.  Option<T> is a sequence of length <= 1.    *)
(* u64 and usize are modelled at a reduced width (U64Width, UsizeWidth):   *)
(* the walker only compares sizes and depths, it never does arithmetic     *)
(* that could overflow, so only the position of the largest value matters. *)
(***************************************************************************)
EXTENDS Integers, Sequences, FiniteSets, TLC

VARIABLES
    pc,          \* position of the run: start, built, walking, done, failed, exited
    arguments,   \* the parsed command line (struct Arguments)
    rootName,    \* last component of the root path handed to the walker
    tree,        \* the file system below the root: path -> node
    pathOk,      \* did get_path(arguments) resolve the root
    walk,        \* options of the WalkDirGeneric built by get_all_files
    listings,    \* per directory read: state and dir_entry_results
    stack,       \* read_dir_iter_stack of the DirEntryIter
    all_files,   \* FileInfo collected so far
    result,      \* what get_all_files returned: none, Ok, Err
    touched,     \* <<listing, worker index, entry index>> worker accesses
    writes       \* <<listing, entry index>> -> number of client_state writes

vars == <<pc, arguments, rootName, tree, pathOk, walk, listings, stack,
          all_files, result, touched, writes>>

(***************************************************************************)
(* Bounds                                                                  *)
(***************************************************************************)
U64Width == 3
UsizeWidth == 3
MaxSizeArg == 2
MaxDepthArg == 2

U64_MAX == 2^U64Width - 1
USIZE_MAX == 2^UsizeWidth - 1

(***************************************************************************)
(* Option<T>                                                               *)
(***************************************************************************)
None == <<>>
Some(v) == <<v>>
IsSome(o) == Len(o) = 1
unwrap_or(o, default) == IF IsSome(o) THEN o[1] ELSE default

(***************************************************************************)
(* The file system                                                         *)
(***************************************************************************)
nA == <<"a">>
nB == <<"b", ".", "t">>
nD == <<"d">>
nS == <<"s">>
nF == <<"f">>
nH == <<".", "h">>
nG == <<".", "g">>
nC == <<"c">>
nL == <<"l">>
nX == <<"x">>

Root == <<>>

\* fs::read_dir order of the names in each directory
ChildNames(p) ==
    CASE p = Root        -> <<nA, nH, nD, nG>>
      [] p = <<nD>>      -> <<nB, nS, nL, nX>>
      [] p = <<nD, nS>>  -> <<nF>>
      [] p = <<nG>>      -> <<nC>>
      [] OTHER           -> <<>>

Range(s) == {s[i] : i \in 1..Len(s)}

RECURSIVE Below(_)
Below(p) == {p} \cup UNION {Below(Append(p, n)) : n \in Range(ChildNames(p))}

Paths == Below(Root)

Node(kind, size, metaOk, readOk) ==
    [kind |-> kind, size |-> size, metaOk |-> metaOk, readOk |-> readOk]

\* sizes a file may have: around the size arguments, and both ends of u64
FileSizes == 0..(MaxSizeArg + 1) \cup {U64_MAX}

DirTree(sa, ma, rd) ==
    [p \in Paths |->
       CASE p = Root           -> Node("dir", 0, TRUE, TRUE)
         [] p = <<nA>>         -> Node("file", sa, ma, TRUE)
         [] p = <<nH>>         -> Node("file", 2, TRUE, TRUE)
         [] p = <<nD>>         -> Node("dir", 0, TRUE, rd)
         [] p = <<nD, nB>>     -> Node("file", 2, TRUE, TRUE)
         [] p = <<nD, nS>>     -> Node("dir", 0, TRUE, TRUE)
         [] p = <<nD, nS, nF>> -> Node("file", 1, TRUE, TRUE)
         [] p = <<nD, nL>>     -> Node("symlink", 1, TRUE, TRUE)
         [] p = <<nD, nX>>     -> Node("err", 1, FALSE, FALSE)
         [] p = <<nG>>         -> Node("dir", 0, TRUE, TRUE)
         [] p = <<nG, nC>>     -> Node("file", 1, TRUE, TRUE)]

\* a root that is a regular file: nothing below it exists
FileTree(sr) ==
    [p \in Paths |->
       IF p = Root THEN Node("file", sr, TRUE, TRUE)
                   ELSE Node("absent", 0, FALSE, FALSE)]

\* the trees whose root is a directory: the size of a, whether the metadata
\* of a can be read, whether directory d can be read
DirTrees ==
    {DirTree(sa, TRUE, rd) : sa \in FileSizes, rd \in BOOLEAN}
        \cup {DirTree(1, FALSE, rd) : rd \in BOOLEAN}

FileTrees == {FileTree(sr) : sr \in 1..MaxSizeArg}

\* the root path and what lies under it; the root's own name may be hidden
Roots ==
    {[name |-> <<"r">>, tree |-> t] : t \in DirTrees \cup FileTrees}
        \cup {[name |-> <<".", "r">>, tree |-> t] :
                 t \in {DirTree(1, TRUE, TRUE), FileTree(1)}}

\* jwalk: is_hidden(file_name), the name starts with '.'
is_hidden(name) == Len(name) > 0 /\ name[1] = "."

Depth(p) == Len(p)

FullPath(p) == <<rootName>> \o p

(***************************************************************************)
(* Arguments (src/args.rs)                                                 *)
(***************************************************************************)
SizeArgs == {None} \cup {Some(n) : n \in 1..MaxSizeArg}
MinDepthArgs == {None} \cup {Some(n) : n \in 1..MaxDepthArg}
MaxDepthArgs == {None} \cup {Some(n) : n \in 0..MaxDepthArg}

ArgumentsSet ==
    [min_depth : MinDepthArgs, max_depth : MaxDepthArgs,
     min_size : SizeArgs, max_size : SizeArgs,
     omit_hidden : BOOLEAN]

\* Arguments::get_size_range: min_size..=max_size
get_size_range(args) ==
    [start |-> unwrap_or(args.min_size, 0),
     end   |-> unwrap_or(args.max_size, U64_MAX)]

\* a size test that leaves out the upper bound itself
size_in_range_open(file_size, min_size, max_size) ==
    file_size >= min_size /\ file_size < max_size

\* RangeInclusive::contains, written out in the walker as
\* file_size >= min_size && file_size <= max_size
size_in_range(file_size, min_size, max_size) ==
    file_size >= min_size /\ file_size <= max_size

(***************************************************************************)
(* WalkDirGeneric options (jwalk builder calls of get_all_files)           *)
(***************************************************************************)
\* WalkDirGeneric::new: min_depth 0, max_depth usize::MAX
new_walk == [min_depth |-> 0, max_depth |-> USIZE_MAX, skip_hidden |-> TRUE]

\* .min_depth(depth): a min_depth above max_depth is lowered to it
set_min_depth(w, depth) ==
    [w EXCEPT !.min_depth = IF depth > w.max_depth THEN w.max_depth ELSE depth]

\* .max_depth(depth): a max_depth below min_depth is raised to it
set_max_depth(w, depth) ==
    [w EXCEPT !.max_depth = IF depth < w.min_depth THEN w.min_depth ELSE depth]

\* the flag handed over negated
set_skip_hidden_negated(w, flag) == [w EXCEPT !.skip_hidden = ~flag]

\* .skip_hidden(arguments.omit_hidden)
set_skip_hidden(w, flag) == [w EXCEPT !.skip_hidden = flag]

\* the depth bounds handed to the wrong setters
build_walk_swapped(args) ==
    LET w1 == set_min_depth(new_walk, unwrap_or(args.max_depth, USIZE_MAX))
        w2 == set_max_depth(w1, unwrap_or(args.min_depth, 0))
        w3 == set_skip_hidden(w2, args.omit_hidden)
    IN  [min_depth   |-> w3.min_depth,
         max_depth   |-> w3.max_depth,
         skip_hidden |-> w3.skip_hidden,
         min_size    |-> get_size_range(args).start,
         max_size    |-> get_size_range(args).end]

\* the builder chain of get_all_files, with the size bounds the closure captures
build_walk(args) ==
    LET w1 == set_min_depth(new_walk, unwrap_or(args.min_depth, 0))
        w2 == set_max_depth(w1, unwrap_or(args.max_depth, USIZE_MAX))
        w3 == set_skip_hidden(w2, args.omit_hidden)
    IN  [min_depth   |-> w3.min_depth,
         max_depth   |-> w3.max_depth,
         skip_hidden |-> w3.skip_hidden,
         min_size    |-> get_size_range(args).start,
         max_size    |-> get_size_range(args).end]

NoWalk ==
    [min_depth |-> 0, max_depth |-> 0, skip_hidden |-> FALSE,
     min_size |-> 0, max_size |-> 0]

(***************************************************************************)
(* Directory entries                                                       *)
(***************************************************************************)
\* a key that starts with a hash of its own
Key_new_hashed(size, hash) == [size |-> size, hash |-> Some(0)]

\* Key::new(file_size, None) and FileInfo { key, path }
Key_new(size, hash) == [size |-> size, hash |-> hash]
FileInfo(key, path) == [key |-> key, path |-> path]

\* a DirEntry (ok) or a jwalk::Error (not ok) of dir_entry_results;
\* client_state starts as Option::default()
EntryOf(p) ==
    [ok            |-> tree[p].kind # "err",
     path          |-> p,
     depth         |-> Depth(p),
     file_type     |-> tree[p].kind,
     read_children |-> tree[p].kind = "dir",
     client_state  |-> None]

FileName(e) == IF e.path = Root THEN rootName ELSE e.path[Len(e.path)]

\* the entries fs::read_dir yields for directory d, hidden ones dropped
\* when skip_hidden is set (an entry that failed to load is kept as an error)
ReadDirEntries(d, skip_hidden) ==
    LET names == ChildNames(d)
        raw == [i \in 1..Len(names) |-> EntryOf(Append(d, names[i]))]
        keep(e) == ~(e.ok /\ skip_hidden /\ is_hidden(FileName(e)))
    IN  SelectSeq(raw, keep)

(***************************************************************************)
(* analyze_dir_entry_results                                               *)
(***************************************************************************)
\* a worker item filter that forgets .filter(|e| e.file_type().is_file())
is_worker_item_any(e) == e.ok

\* a worker item filter that tests !is_dir() where is_file() is meant
is_worker_item_not_dir(e) == e.ok /\ e.file_type # "dir"

\* .flatten().filter(...): the entries the for_each closure is run on
is_worker_item(e) == e.ok /\ e.file_type = "file"

WorkerItems(entries) == {i \in 1..Len(entries) : is_worker_item(entries[i])}

Unchanged(entries) == [entries |-> entries, written |-> {}]

\* a closure that takes the size of unreadable metadata to be 0
WorkerStepDefaultSize(entries, i, min_size, max_size) ==
    LET e == entries[i]
        file_size == IF tree[e.path].metaOk THEN tree[e.path].size ELSE 0
    IN  IF size_in_range(file_size, min_size, max_size)
        THEN [entries |-> [entries EXCEPT ![i].client_state =
                 Some(FileInfo(Key_new(file_size, None), FullPath(e.path)))],
              written |-> {i}]
        ELSE [entries |-> [entries EXCEPT ![i].client_state = None],
              written |-> {i}]

\* a closure that also clears the client_state of the entry after its own
WorkerStepNeighbour(entries, i, min_size, max_size) ==
    LET e == entries[i]
        j == IF i < Len(entries) THEN i + 1 ELSE i
    IN  IF ~tree[e.path].metaOk THEN Unchanged(entries)
        ELSE LET file_size == tree[e.path].size
                 mine == IF size_in_range(file_size, min_size, max_size)
                         THEN Some(FileInfo(Key_new(file_size, None), FullPath(e.path)))
                         ELSE None
             IN  [entries |-> [k \in 1..Len(entries) |->
                                 IF k = i THEN [entries[k] EXCEPT !.client_state = mine]
                                 ELSE IF k = j THEN [entries[k] EXCEPT !.client_state = None]
                                 ELSE entries[k]],
                  written |-> {i, j}]

\* the for_each closure, run for entry i by one rayon worker: the entries
\* after it and the indices whose client_state it wrote
WorkerStep(entries, i, min_size, max_size) ==
    LET e == entries[i]
    IN  IF ~tree[e.path].metaOk THEN Unchanged(entries)
        ELSE LET file_size == tree[e.path].size
             IN  IF size_in_range(file_size, min_size, max_size)
                 THEN [entries |-> [entries EXCEPT ![i].client_state =
                          Some(FileInfo(Key_new(file_size, None), FullPath(e.path)))],
                       written |-> {i}]
                 ELSE [entries |-> [entries EXCEPT ![i].client_state = None],
                       written |-> {i}]

\* the whole call when the entries are processed one after the other
RECURSIVE AnalyzeFrom(_, _, _, _)
AnalyzeFrom(entries, i, min_size, max_size) ==
    IF i > Len(entries) THEN entries
    ELSE IF is_worker_item(entries[i])
    THEN AnalyzeFrom(WorkerStep(entries, i, min_size, max_size).entries,
                     i + 1, min_size, max_size)
    ELSE AnalyzeFrom(entries, i + 1, min_size, max_size)

analyze_dir_entry_results(entries, min_size, max_size) ==
    AnalyzeFrom(entries, 1, min_size, max_size)

(***************************************************************************)
(* The walk: DirEntryIter over the directory reads of the rayon pool       *)
(***************************************************************************)
\* the listing that holds root_entry_results (the root entry alone)
RootList == << <<>> >>

ListingIds == {RootList} \cup Paths

NoListing == [state |-> "none", entries |-> <<>>, done |-> {}]

Zeros(n) == [i \in 1..n |-> 0]

Init ==
    /\ pc = "start"
    /\ arguments \in ArgumentsSet
    /\ \E r \in Roots : rootName = r.name /\ tree = r.tree
    /\ pathOk = FALSE
    /\ walk = NoWalk
    /\ listings = [id \in ListingIds |-> NoListing]
    /\ stack = <<>>
    /\ all_files = <<>>
    /\ result = "none"
    /\ touched = {}
    /\ writes = [id \in ListingIds |-> <<>>]

\* Arguments::build: parse; with --generate print the completions and exit
Build ==
    /\ pc = "start"
    /\ \E generator \in BOOLEAN :
          pc' = IF generator THEN "exited" ELSE "built"
    /\ UNCHANGED <<arguments, rootName, tree, pathOk, walk, listings, stack,
                   all_files, result, touched, writes>>

\* get_all_files up to into_iter: get_path(arguments)?, the builder chain,
\* and the root entry handed to process_read_dir
Start ==
    /\ pc = "built"
    /\ \E resolved \in BOOLEAN : pathOk' = resolved
    /\ IF ~pathOk'
       THEN /\ pc' = "failed"
            /\ result' = "Err"
            /\ UNCHANGED <<walk, listings, writes>>
       ELSE /\ pc' = "walking"
            /\ walk' = build_walk(arguments)
            /\ listings' = [listings EXCEPT ![RootList] =
                  [state |-> "busy", entries |-> <<EntryOf(Root)>>, done |-> {}]]
            /\ writes' = [writes EXCEPT ![RootList] = Zeros(1)]
            /\ UNCHANGED result
    /\ UNCHANGED <<arguments, rootName, tree, stack, all_files, touched>>

\* a pool thread reads directory d: nothing below max_depth, nothing when
\* fs::read_dir fails, else the entries, handed to process_read_dir
ReadDir(d) ==
    /\ pc = "walking"
    /\ listings[d].state = "queued"
    /\ IF Depth(d) + 1 > walk.max_depth \/ ~tree[d].readOk
       THEN /\ listings' = [listings EXCEPT ![d] =
                  [state |-> "ready", entries |-> <<>>, done |-> {}]]
            /\ UNCHANGED writes
       ELSE LET entries == ReadDirEntries(d, walk.skip_hidden)
            IN  /\ listings' = [listings EXCEPT ![d] =
                      [state |-> "busy", entries |-> entries, done |-> {}]]
                /\ writes' = [writes EXCEPT ![d] = Zeros(Len(entries))]
    /\ UNCHANGED <<pc, arguments, rootName, tree, pathOk, walk, stack,
                   all_files, result, touched>>

\* one rayon worker of par_iter_mut handles entry i of the listing
Worker(id, i) ==
    /\ pc = "walking"
    /\ listings[id].state = "busy"
    /\ i \in WorkerItems(listings[id].entries)
    /\ i \notin listings[id].done
    /\ LET r == WorkerStep(listings[id].entries, i, walk.min_size, walk.max_size)
       IN  /\ listings' = [listings EXCEPT ![id].entries = r.entries,
                                           ![id].done = @ \cup {i}]
           /\ touched' = touched \cup {<<id, i, j>> : j \in r.written \cup {i}}
           /\ writes' = [writes EXCEPT ![id] =
                 [j \in 1..Len(@) |-> IF j \in r.written THEN @[j] + 1 ELSE @[j]]]
    /\ UNCHANGED <<pc, arguments, rootName, tree, pathOk, walk, stack,
                   all_files, result>>

\* a read that is published without scheduling the directories it found
FinishNoChildren(id) ==
    /\ pc = "walking"
    /\ listings[id].state = "busy"
    /\ listings[id].done = WorkerItems(listings[id].entries)
    /\ listings' = [listings EXCEPT ![id].state = "ready"]
    /\ stack' = IF id = RootList THEN <<[id |-> RootList, idx |-> 1]>> ELSE stack
    /\ UNCHANGED <<pc, arguments, rootName, tree, pathOk, walk, all_files,
                   result, touched, writes>>

\* for_each has joined: process_read_dir returns, the read is published and
\* the directories among its entries are scheduled (root: the iterator starts)
Finish(id) ==
    /\ pc = "walking"
    /\ listings[id].state = "busy"
    /\ listings[id].done = WorkerItems(listings[id].entries)
    /\ LET entries == listings[id].entries
           kids == {entries[i].path : i \in {j \in 1..Len(entries) :
                       entries[j].ok /\ entries[j].read_children}}
       IN  listings' = [l \in ListingIds |->
              IF l = id THEN [listings[l] EXCEPT !.state = "ready"]
              ELSE IF l \in kids THEN [listings[l] EXCEPT !.state = "queued"]
              ELSE listings[l]]
    /\ stack' = IF id = RootList THEN <<[id |-> RootList, idx |-> 1]>> ELSE stack
    /\ UNCHANGED <<pc, arguments, rootName, tree, pathOk, walk, all_files,
                   result, touched, writes>>

Iterating == pc = "walking" /\ listings[RootList].state = "ready"

Top == stack[Len(stack)]

\* DirEntryIter::next takes the next entry of the top read; flatten drops an
\* error; a directory's read is pushed (the iterator waits for it); an entry
\* below min_depth is not yielded; filter_map keeps the client_state
IterYield ==
    /\ Iterating
    /\ stack # <<>>
    /\ Top.idx <= Len(listings[Top.id].entries)
    /\ LET e == listings[Top.id].entries[Top.idx]
           advanced == [stack EXCEPT ![Len(stack)].idx = @ + 1]
       IN  IF ~e.ok
           THEN /\ stack' = advanced
                /\ UNCHANGED all_files
           ELSE /\ e.read_children => listings[e.path].state = "ready"
                /\ stack' = IF e.read_children
                            THEN Append(advanced, [id |-> e.path, idx |-> 1])
                            ELSE advanced
                /\ all_files' = IF e.depth >= walk.min_depth /\ IsSome(e.client_state)
                                THEN Append(all_files, e.client_state[1])
                                ELSE all_files
    /\ UNCHANGED <<pc, arguments, rootName, tree, pathOk, walk, listings,
                   result, touched, writes>>

\* the top read is exhausted: read_dir_iter_stack.pop()
IterPop ==
    /\ Iterating
    /\ stack # <<>>
    /\ Top.idx > Len(listings[Top.id].entries)
    /\ stack' = SubSeq(stack, 1, Len(stack) - 1)
    /\ UNCHANGED <<pc, arguments, rootName, tree, pathOk, walk, listings,
                   all_files, result, touched, writes>>

\* the stack is empty: next() is None, collect() returns Ok(all_files)
IterReturn ==
    /\ Iterating
    /\ stack = <<>>
    /\ pc' = "done"
    /\ result' = "Ok"
    /\ UNCHANGED <<arguments, rootName, tree, pathOk, walk, listings, stack,
                   all_files, touched, writes>>

Next ==
    \/ Build
    \/ Start
    \/ \E d \in Paths : ReadDir(d)
    \/ \E id \in ListingIds : \E i \in 1..4 : Worker(id, i)
    \/ \E id \in ListingIds : Finish(id)
    \/ IterYield
    \/ IterPop
    \/ IterReturn

Spec == Init /\ [][Next]_vars

\* the runs checked for termination: the size bounds only choose the value
\* a worker writes, never whether a step is taken, so min_size is left absent
InitLive == Init /\ arguments.min_size = None

\* the scheduler keeps running the pool threads and the consuming iterator
SpecLive == InitLive /\ [][Next]_vars /\ WF_vars(Next)

(***************************************************************************)
(* Vocabulary of the properties                                            *)
(***************************************************************************)
Exists(p) == tree[p].kind # "absent"
IsRegularFile(p) == tree[p].kind = "file"

Prefix(p, k) == SubSeq(p, 1, k)

\* every directory above p can be listed
Reachable(p) ==
    \A k \in 0..(Len(p) - 1) :
        tree[Prefix(p, k)].kind = "dir" /\ tree[Prefix(p, k)].readOk

\* p is an entry the walk cannot read: a failed entry, a file without
\* readable metadata, or anything inside a directory that cannot be listed
Unreadable(p) == tree[p].kind = "err" \/ ~tree[p].metaOk \/ ~Reachable(p)

HiddenBelowRoot(p) == \E k \in 1..Len(p) : is_hidden(p[k])
HiddenComponent(p) == \E k \in 1..Len(FullPath(p)) : is_hidden(FullPath(p)[k])

HasRecord(p) == \E i \in 1..Len(all_files) : all_files[i].path = FullPath(p)

\* the bounds as the arguments give them, absent meaning unbounded
ArgMinDepth == unwrap_or(arguments.min_depth, 0)
ArgMaxDepth == unwrap_or(arguments.max_depth, USIZE_MAX)
ArgMinSize == unwrap_or(arguments.min_size, 0)
ArgMaxSize == unwrap_or(arguments.max_size, U64_MAX)

DepthInArgs(p) == ArgMinDepth <= Depth(p) /\ Depth(p) <= ArgMaxDepth
SizeInArgs(p) == ArgMinSize <= tree[p].size /\ tree[p].size <= ArgMaxSize

\* the depth range the walker ends up with when max_depth < min_depth
DepthInEffect(p) ==
    /\ ArgMinDepth <= Depth(p)
    /\ Depth(p) <= (IF ArgMaxDepth < ArgMinDepth THEN ArgMinDepth ELSE ArgMaxDepth)

Done == pc = "done"

PassesFilters(p) ==
    /\ IsRegularFile(p)
    /\ DepthInArgs(p)
    /\ SizeInArgs(p)
    /\ (arguments.omit_hidden => ~HiddenBelowRoot(p))

\* C2: once the root path is resolved get_all_files never returns Err, and
\* when it has returned, no unreadable entry has a FileInfo while every
\* other file that passes the filters has one.
C2_FailuresAbsorbed ==
    /\ pathOk => result # "Err"
    /\ Done =>
        /\ result = "Ok"
        /\ \A p \in Paths : Exists(p) =>
              /\ Unreadable(p) => ~HasRecord(p)
              /\ (~Unreadable(p) /\ PassesFilters(p)) => HasRecord(p)

\* a finished walk over a tree with an error entry, a file without metadata
\* and a directory that cannot be listed, which still has records for others
C2_Witness ==
    /\ Done
    /\ result = "Ok"
    /\ ~tree[<<nA>>].metaOk
    /\ ~tree[<<nD>>].readOk
    /\ tree[<<nD, nX>>].kind = "err"
    /\ HasRecord(<<nH>>)
    /\ HasRecord(<<nG, nC>>)
    /\ ~HasRecord(<<nA>>)
    /\ ~HasRecord(<<nD, nB>>)

(***************************************************************************)
(* C3  Inverted bounds are a configuration error                           *)
(***************************************************************************)
InvertedBounds ==
    \/ IsSome(arguments.min_size) /\ IsSome(arguments.max_size)
          /\ arguments.min_size[1] > arguments.max_size[1]
    \/ IsSome(arguments.min_depth) /\ IsSome(arguments.max_depth)
          /\ arguments.min_depth[1] > arguments.max_depth[1]

\* C3: a run whose configuration has min_size > max_size or
\* min_depth > max_depth never reaches the walk and never completes with a
\* result.
C3_InvertedBoundsNeverWalk ==
    InvertedBounds => (pc \notin {"walking", "done"} /\ result # "Ok")

(***************************************************************************)
(* C4  Hidden filter                                                       *)
(***************************************************************************)
\* C4 as stated: with omit_hidden no FileInfo is produced for a file whose
\* path has any component beginning with '.'.
C4_NoHiddenComponent_Original ==
    arguments.omit_hidden =>
        \A p \in Paths : HiddenComponent(p) => ~HasRecord(p)

\* C4 amended: with omit_hidden no FileInfo is produced for a file whose path
\* has a component below the root beginning with '.' (the root path itself is
\* not tested), and no hidden directory is ever read; without omit_hidden a
\* file with such a component has a FileInfo iff it passes the other filters.
C4_HiddenFilter ==
    /\ arguments.omit_hidden =>
          \A p \in Paths : HiddenBelowRoot(p) =>
              /\ ~HasRecord(p)
              /\ listings[p].state = "none"
    /\ (~arguments.omit_hidden /\ Done) =>
          \A p \in Paths : (Exists(p) /\ HiddenBelowRoot(p)) =>
              (HasRecord(p) <=>
                  /\ ~Unreadable(p)
                  /\ DepthInEffect(p)
                  /\ SizeInArgs(p)
                  /\ IsRegularFile(p))

\* a finished walk with omit_hidden under a hidden root: the files below it
\* are recorded, the hidden file and the file in the hidden directory are not
C4_Witness ==
    /\ Done
    /\ arguments.omit_hidden
    /\ is_hidden(rootName)
    /\ HasRecord(<<nA>>)
    /\ HasRecord(<<nD, nB>>)
    /\ ~HasRecord(<<nH>>)
    /\ ~HasRecord(<<nG, nC>>)
    /\ listings[<<nG>>].state = "none"

(***************************************************************************)
(* C5  Size bounds are inclusive and default to unbounded                  *)
(***************************************************************************)
\* the entries of the reads that process_read_dir has returned from
Analysed == {id \in ListingIds : listings[id].state = "ready"}

ReadableFiles(id) ==
    {i \in 1..Len(listings[id].entries) :
        LET e == listings[id].entries[i]
        IN  e.ok /\ e.file_type = "file" /\ tree[e.path].metaOk}

\* C5: after analyze_dir_entry_results a readable regular file is kept iff
\* min_size <= size <= max_size, both ends included, an absent min_size
\* read as 0 and an absent max_size as the largest u64; with both absent
\* every readable regular file is kept.
C5_SizeBoundsInclusive ==
    \A id \in Analysed : \A i \in ReadableFiles(id) :
        LET e == listings[id].entries[i]
            size == tree[e.path].size
            lo == IF IsSome(arguments.min_size) THEN arguments.min_size[1] ELSE 0
            hi == IF IsSome(arguments.max_size) THEN arguments.max_size[1]
                  ELSE U64_MAX
        IN  /\ IsSome(e.client_state) <=> (lo <= size /\ size <= hi)
            /\ (arguments.min_size = None /\ arguments.max_size = None)
                  => IsSome(e.client_state)

\* one analysed directory holds a file of exactly max_size that is kept and
\* a file of max_size + 1 that is not
C5_Witness ==
    /\ arguments.min_size = Some(1)
    /\ arguments.max_size = Some(1)
    /\ Root \in Analysed
    /\ \E i, j \in ReadableFiles(Root) :
          /\ tree[listings[Root].entries[i].path].size = 1
          /\ IsSome(listings[Root].entries[i].client_state)
          /\ tree[listings[Root].entries[j].path].size = 2
          /\ ~IsSome(listings[Root].entries[j].client_state)

(***************************************************************************)
(* C6  Exactly one File Record per surviving file                          *)
(***************************************************************************)
Survivors ==
    {p \in Paths :
        /\ Exists(p)
        /\ ~Unreadable(p)
        /\ IsRegularFile(p)
        /\ DepthInEffect(p)
        /\ SizeInArgs(p)
        /\ (arguments.omit_hidden => ~HiddenBelowRoot(p))}

SizeOnly(info) ==
    /\ info.key.hash = None
    /\ \E p \in Paths :
          /\ info.path = FullPath(p)
          /\ tree[p].metaOk
          /\ info.key.size = tree[p].size
    /\ ArgMinSize <= info.key.size
    /\ info.key.size <= ArgMaxSize

\* C7: every FileInfo the walker creates or returns has a key without a
\* hash whose size is the length read from the file's metadata, and that
\* size is in [min_size, max_size].
C7_KeysSizeOnly ==
    /\ \A i \in 1..Len(all_files) : SizeOnly(all_files[i])
    /\ \A id \in ListingIds : \A i \in 1..Len(listings[id].entries) :
          IsSome(listings[id].entries[i].client_state)
              => SizeOnly(listings[id].entries[i].client_state[1])

\* records of two different sizes have been returned
C7_Witness ==
    /\ Done
    /\ \E i, j \in 1..Len(all_files) : all_files[i].key.size # all_files[j].key.size

(***************************************************************************)
(* C8  The parallel workers of one read do not interfere                   *)
(***************************************************************************)
\* the reads that went through process_read_dir
WasAnalysed(id) ==
    /\ listings[id].state = "ready"
    /\ id # RootList => (Depth(id) + 1 <= walk.max_depth /\ tree[id].readOk)

\* dir_entry_results as handed to analyze_dir_entry_results
Published(id) ==
    IF id = RootList THEN <<EntryOf(Root)>>
    ELSE ReadDirEntries(id, walk.skip_hidden)

\* C8: a worker accesses only the client_state of its own entry, no
\* client_state is written more than once, and whatever the order of the
\* workers the entries end as sequential processing leaves them.
C8_WorkersIndependent ==
    /\ \A t \in touched : t[2] = t[3]
    /\ \A id \in ListingIds : \A i \in 1..Len(writes[id]) : writes[id][i] <= 1
    /\ \A id \in ListingIds : WasAnalysed(id) =>
          listings[id].entries =
              analyze_dir_entry_results(Published(id), walk.min_size, walk.max_size)

\* the second file of the root directory has been handled before the first,
\* and it was kept
C8_Witness ==
    /\ listings[Root].state = "busy"
    /\ WorkerItems(listings[Root].entries) = {1, 2}
    /\ listings[Root].done = {2}
    /\ IsSome(listings[Root].entries[2].client_state)
    /\ writes[Root][2] = 1

(***************************************************************************)
(* C9  The walk runs to completion                                         *)
(***************************************************************************)
\* every directory the walk found has been read and consumed
AllRead ==
    /\ \A id \in ListingIds : listings[id].state \in {"none", "ready"}
    /\ \A id \in ListingIds : \A i \in 1..Len(listings[id].entries) :
          LET e == listings[id].entries[i]
          IN  (listings[id].state = "ready" /\ e.ok /\ e.file_type = "dir")
                  => listings[e.path].state = "ready"
    /\ stack = <<>>

\* C9: a walk that has started eventually returns its result, with every
\* directory it reached read, whatever entries are unreadable.
C9_WalkCompletes == (pc = "walking") ~> (Done /\ result = "Ok" /\ AllRead)

\* a walk over a tree with unreadable entries has returned after reading
\* the directories down to depth 3
C9_Witness ==
    /\ Done
    /\ AllRead
    /\ ~tree[<<nA>>].metaOk
    /\ listings[<<nD, nS>>].state = "ready"
    /\ listings[<<nG>>].state = "ready"

(***************************************************************************)
(* C10  Frame of analyze_dir_entry_results                                 *)
(***************************************************************************)
SameButClientState(e1, e2) == [e2 EXCEPT !.client_state = e1.client_state] = e1

\* while a read is being analysed its entries keep their number, order and
\* fields; only the client_state of a readable regular file may change
FrameStep ==
    \A id \in ListingIds : listings[id].state = "busy" =>
        /\ Len(listings'[id].entries) = Len(listings[id].entries)
        /\ \A i \in 1..Len(listings[id].entries) :
              LET e1 == listings[id].entries[i]
                  e2 == listings'[id].entries[i]
              IN  /\ SameButClientState(e1, e2)
                  /\ e2 # e1 => (e1.ok /\ e1.file_type = "file"
                                   /\ tree[e1.path].metaOk)

\* after the analysis every entry that is not a readable regular file is as
\* it was read, and every directory among them is still descended into
FrameKept ==
    \A id \in ListingIds : WasAnalysed(id) =>
        /\ Len(listings[id].entries) = Len(Published(id))
        /\ \A i \in 1..Len(listings[id].entries) :
              LET e == listings[id].entries[i]
              IN  /\ i \notin ReadableFiles(id) => e = Published(id)[i]
                  /\ (e.ok /\ e.file_type = "dir") =>
                        (e.read_children /\ listings[e.path].state # "none")

\* C10: analyze_dir_entry_results changes nothing but the client_state of
\* regular-file entries with readable metadata; entries are never removed,
\* added or reordered, error entries, directories, symlinks and unreadable
\* files stay as they were, and no directory is pruned by the size filter.
C10_AnalyzeFrame == []FrameKept /\ [][FrameStep]_vars

\* with size bounds that reject every file of directory d, d has been
\* analysed with its error entry, symlink and subdirectory in place and the
\* subdirectory has been read
C10_Witness ==
    /\ arguments.min_size = Some(1)
    /\ arguments.max_size = Some(1)
    /\ WasAnalysed(<<nD>>)
    /\ Len(listings[<<nD>>].entries) = 4
    /\ \A i \in 1..4 : ~IsSome(listings[<<nD>>].entries[i].client_state)
    /\ WasAnalysed(<<nD, nS>>)
    /\ IsSome(listings[<<nD, nS>>].entries[1].client_state)

====
